---- MODULE Spec2Model ----
(***************************************************************************)
(* The tiered cache of the feedback dashboard: CacheService                *)
(* (middleware/cache.js) in front of a node-cache instance and an optional *)
(* redis client, and the cacheMiddleware decorator that wraps an express   *)
(* handler (PERFORMANCE_OPTIMIZATION.md).                                  *)
(*                                                                         *)
(* One process is modelled in full: its memoryCache, its redisClient and   *)
(* the requests it serves.  The redis server is shared with other          *)
(* processes that run the same code; of those only their writes to the     *)
(* server are modelled (PeerSet, PeerDelete).  A redis client sends its    *)
(* commands over one connection, so the server answers the commands of the *)
(* process in the order they were issued.  Time is counted in seconds.     *)
(***************************************************************************)
EXTENDS Integers, Sequences, FiniteSets, TLC

\* ------------------------------------------------------------- bounds
\* How many calls of each kind one behaviour makes, and how often its
\* clock advances.
MaxSets == 1
MaxGets == 2
MaxDeletes == 1
MaxPeers == 1
MaxMws == 2
MaxTicks == 1
\* Requests under timeoutMiddleware, and the largest configured retryAttempts.
MaxReqs == 3
MaxAttempts == 3
\* The clock's first value; node-cache reads t = 0 as "never expires", so the
\* clock starts after 0.
Epoch == 1

\* ---------------------------------------------------- program constants
stdTTL == 300
DefaultTtl == 300
PromoteTtl == 60
DefaultDuration == 300
DefaultRetryAttempts == 3
DefaultRetryDelay == 1000

\* ------------------------------------------------------------- inputs
Tasks == {"t1", "t2"}
\* The request slots of a process that serves one request at a time.
Sequential == {"t1"}
URLs == {"/api/surveys"}
DirectKeys == {"user:42"}
TickSteps == {1, 2, stdTTL, stdTTL + 1}
TtlInputs == {0, 1, DefaultTtl}
Durations == {0, DefaultDuration}
\* The requests in flight under timeoutMiddleware, and the statuses their
\* handlers answer with.
Reqs == 1..MaxReqs
HandlerStatuses == {200, 500}
\* The retryAttempts and retryDelay of a SurveySDK's config; 0 stands for a
\* falsy or absent one.
ConfigAttempts == 0..MaxAttempts
ConfigDelays == {0, 500}
\* How an attempt's fetch ends: it rejects, the response is not ok, the
\* response is ok with a JSON body, or it is ok with a body that is not JSON.
FetchOutcomes == {"network", "notOk", "okJson", "okNotJson"}
\* JavaScript values a caller stores: the number 0 and NaN are falsy, the
\* object is truthy.
SetValues == {"0", "NaN", "Ada"}
\* What a handler passes to res.json: a result, or the body of its 500 reply.
OkBodies == {"0", "Ada", "Bob"}
ErrBody == "Err"
\* The methods of the requests a mounted middleware sees.
Methods == {"GET", "POST"}

\* The key cacheMiddleware derives from the request.
MwKey(url) == "cache:" \o url

Keys == DirectKeys \cup {MwKey(u) : u \in URLs}

\* if (x) in JavaScript.  "null" and "undefined" are the two JS values.
Truthy(x) == x \notin {"0", "NaN", "null", "undefined", ""}

\* JSON.stringify(value): NaN is written as null.
Stringify(x) == IF x \in {"NaN", "null"} THEN "json:null" ELSE "json:" \o x

\* JSON.parse(text)
Parse(s) ==
  CASE s = "json:null" -> "null"
    [] s = "json:0" -> "0"
    [] s = "json:Ada" -> "Ada"
    [] s = "json:Bob" -> "Bob"
    [] s = "json:Err" -> "Err"
    [] OTHER -> "undefined"

VARIABLES
  now,          \* the clock, in seconds
  memoryCache,  \* memoryCache[k]: the node-cache entry {v, t}
  redisClient,  \* "null" or "client"
  conn,         \* state of the client's connection
  queue,        \* commands the client has issued, not yet answered
  remote,       \* remote[k]: the redis server's entry {s, exp}
  health,       \* "up", or "down": the server fails every command
  task,         \* task[t]: the call a request is running, with its result
  unhandled,    \* a promise nobody awaits was rejected
  lastSet,      \* lastSet[k]: the latest CacheService.set of k that returned
  lastDel,      \* lastDel[k]: delete(k) returned and no set of k began since
  lastMw,       \* lastMw[k]: the latest middleware call for k that returned
  used,         \* calls of each kind and clock advances so far
  requests,     \* requests[r]: a request under timeoutMiddleware and its response
  sdk           \* the page's SurveySDK and its makeRequest call

cacheVars == <<now, memoryCache, redisClient, conn, queue, remote, health, task,
               unhandled, lastSet, lastDel, lastMw, used>>

vars == <<cacheVars, requests, sdk>>

NoRequest == [timer |-> "none", handler |-> "none", headersSent |-> FALSE,
              sent |-> <<>>, threw |-> {}]
NoError == [kind |-> "undefined", attempt |-> 0]
NoSdk == [pc |-> "none", retryAttempts |-> 0, retryDelay |-> 0, attempt |-> 0,
          fetches |-> 0, okAt |-> 0, waits |-> <<>>, lastError |-> NoError,
          out |-> [ret |-> "none", err |-> NoError, body |-> 0]]

NoEntry == [v |-> "undefined", t |-> 0]
NoRemote == [s |-> "nil", exp |-> 0]
NoSet == [done |-> FALSE, v |-> "undefined", ttl |-> 0, out |-> "none", at |-> 0]
NoMw == [done |-> FALSE, out |-> "none", status |-> 0, produced |-> 0,
         ttl |-> 0, at |-> 0, lookupFailed |-> FALSE, method |-> "GET"]

\* A request slot.  op, pc, k, v, ttl, out, status, override are the call's
\* own data, method the method of the request a middleware call serves; the
\* rest record what the call saw, for the properties below:
\* via where its value came from, produced how often it ran the handler,
\* lookupFailed that its lookup was rejected, alone that no other call ran
\* while it did, set, afterDel, pre the values of lastSet, lastDel, lastMw
\* when it began, and age how long before that the recorded call returned.
IdleTask == [op |-> "idle", pc |-> "idle", k |-> "user:42", v |-> "undefined",
             ttl |-> 0, out |-> "none", status |-> 0, override |-> FALSE,
             via |-> "none", produced |-> 0, lookupFailed |-> FALSE,
             alone |-> FALSE, set |-> NoSet, afterDel |-> FALSE, pre |-> NoMw,
             age |-> "none", method |-> "GET"]

\* ------------------------------------------------------------ node-cache
\* NodeCache._wrap: ttl 0 never expires, otherwise the entry lives until
\* now + ttl (also for a negative ttl).
Wrap(value, ttl) == [v |-> value, t |-> IF ttl = 0 THEN 0 ELSE now + ttl]

\* NodeCache._check: an entry is dead once its t is not 0 and lies in the past.
LocalLive(e) == e # NoEntry /\ (e.t = 0 \/ ~(e.t < now))

\* memoryCache.get(key): the value, or undefined.
LocalGet(k) == IF LocalLive(memoryCache[k]) THEN memoryCache[k].v ELSE "undefined"

\* memoryCache.get(key) deletes the entry it finds expired.
LocalAfterGet(k) ==
  IF LocalLive(memoryCache[k]) THEN memoryCache ELSE [memoryCache EXCEPT ![k] = NoEntry]

\* A memory cache whose set stores nothing.
LocalSetSkipped(k, value, ttl) == memoryCache

\* memoryCache.set(key, value, ttl)
LocalSet(k, value, ttl) == [memoryCache EXCEPT ![k] = Wrap(value, ttl)]

\* memoryCache.del(key)
LocalDel(k) == [memoryCache EXCEPT ![k] = NoEntry]

\* ----------------------------------------------------------------- redis
\* A key set with SETEX is gone once its time to live has run out.
RemoteLive(e) == e # NoRemote /\ now < e.exp

\* GET key: the stored string, or nil.
RemoteGet(k) == IF RemoteLive(remote[k]) THEN remote[k].s ELSE "nil"

\* SETEX rejects a time to live that is not positive.
SetexAccepts(ttl) == ttl > 0

Command(cmd, k, s, ttl, t) == [cmd |-> cmd, k |-> k, s |-> s, ttl |-> ttl, t |-> t]

InitCache ==
  /\ now = Epoch
  /\ memoryCache = [k \in Keys |-> NoEntry]
  /\ redisClient \in {"null", "client"}
  /\ conn = IF redisClient = "client" THEN "connecting" ELSE "none"
  /\ queue = <<>>
  /\ remote = [k \in Keys |-> NoRemote]
  /\ health \in {"up", "down"}
  /\ task = [t \in Tasks |-> IdleTask]
  /\ unhandled = FALSE
  /\ lastSet = [k \in Keys |-> NoSet]
  /\ lastDel = [k \in Keys |-> FALSE]
  /\ lastMw = [k \in Keys |-> NoMw]
  /\ used = [set |-> 0, get |-> 0, del |-> 0, peer |-> 0, mw |-> 0, tick |-> 0]

\* No request has arrived yet.
InitTimeout == requests = [r \in Reqs |-> NoRequest]

\* The page has not built its SurveySDK yet.
InitSdk == sdk = NoSdk

Running(t) == task[t].pc \notin {"idle", "done"}

\* A new call runs in the first request slot that is free.
Free(t) == ~Running(t) /\ (t = "t1" \/ Running("t1"))

\* How long ago the call recorded in rec returned: in this very second
\* ("same"), no more than its ttl ago ("within"), or longer ago ("after").
Age(rec) ==
  IF ~rec.done THEN "none"
  ELSE IF now = rec.at THEN "same"
  ELSE IF now > rec.at + rec.ttl THEN "after"
  ELSE "within"

Start(op, k, v, ttl) ==
  [IdleTask EXCEPT !.op = op, !.k = k, !.v = v, !.ttl = ttl,
                   !.set = [lastSet[k] EXCEPT !.at = 0],
                   !.afterDel = lastDel[k],
                   !.pre = [lastMw[k] EXCEPT !.at = 0],
                   !.age = Age(IF op = "mw" THEN lastMw[k] ELSE lastSet[k])]

Finish(r, out, status) == [r EXCEPT !.pc = "done", !.out = out, !.status = status]

\* What a call that returns leaves in lastSet and lastMw; done says that no
\* other call and no set of its key ran while it did.
SetRecord(r) == [done |-> r.alone, v |-> r.v, ttl |-> r.ttl, out |-> r.out, at |-> now]

MwRecord(r) == [done |-> r.alone, out |-> r.out, status |-> r.status,
                produced |-> r.produced, ttl |-> r.ttl, at |-> now,
                lookupFailed |-> r.lookupFailed, method |-> r.method]

\* lastSet and lastMw once task function tk has replaced task: a set or a
\* middleware call that returned in this step is recorded.

Returned(tk, t, op) == task[t].pc # "done" /\ tk[t].pc = "done" /\ tk[t].op = op

NextLastSet(tk) ==
  [k \in Keys |->
     IF \E t \in Tasks : Returned(tk, t, "set") /\ tk[t].k = k
       THEN SetRecord(tk[CHOOSE t \in Tasks : Returned(tk, t, "set") /\ tk[t].k = k])
       ELSE lastSet[k]]

NextLastMw(tk) ==
  [k \in Keys |->
     IF \E t \in Tasks : Returned(tk, t, "mw") /\ tk[t].k = k
       THEN MwRecord(tk[CHOOSE t \in Tasks : Returned(tk, t, "mw") /\ tk[t].k = k])
       ELSE lastMw[k]]

\* When a set of k begins, in this process or another, the calls for k still
\* running are no longer alone and lose what they recorded of an earlier set
\* or delete of k.
Forget(tk, k) ==
  [t \in Tasks |-> IF Running(t) /\ tk[t].k = k
                     THEN [tk[t] EXCEPT !.set = NoSet, !.afterDel = FALSE,
                                        !.alone = FALSE]
                     ELSE tk[t]]

\* The task function once slot t begins call r: the calls that are
\* running are no longer alone.
Begin(t, r) ==
  [u \in Tasks |->
     IF u = t THEN [r EXCEPT !.alone = \A w \in Tasks \ {t} : ~Running(w)]
     ELSE IF Running(u) THEN [task[u] EXCEPT !.alone = FALSE]
     ELSE task[u]]

Count(kind) == [used EXCEPT ![kind] = @ + 1]

\* ---------------------------------------------------------- CacheService
\* CacheService.get(key), up to its return or its await of redisClient.get.
CallGet(t, k) ==
  /\ Free(t)
  /\ used.get < MaxGets
  /\ used' = Count("get")
  /\ memoryCache' = LocalAfterGet(k)
  /\ LET r == Start("get", k, "undefined", 0)
         memoryResult == LocalGet(k)
         tk == Begin(t, IF Truthy(memoryResult)
                          THEN Finish([r EXCEPT !.via = "local"], memoryResult, 0)
                        ELSE IF redisClient = "client"
                          THEN [r EXCEPT !.pc = "awaitGet"]
                        ELSE Finish(r, "null", 0))
     IN /\ task' = tk
        /\ queue' = IF tk[t].pc = "awaitGet"
                      THEN Append(queue, Command("get", k, "nil", 0, t))
                      ELSE queue
  /\ lastSet' = lastSet
  /\ lastMw' = lastMw
  /\ UNCHANGED <<requests, sdk, now, redisClient, conn, remote, health, unhandled, lastDel>>

\* CacheService.set(key, value, ttl), up to its return or its await of setex.
CallSet(t, k, value, ttl) ==
  /\ Free(t)
  /\ used.set < MaxSets
  /\ used' = Count("set")
  /\ memoryCache' = LocalSet(k, value, ttl)
  /\ LET r == Start("set", k, value, ttl)
         tk == Begin(t, IF redisClient = "client"
                          THEN [r EXCEPT !.pc = "awaitSet"]
                          ELSE Finish(r, "ok", 0))
     IN /\ task' = Forget(tk, k)
        /\ queue' = IF tk[t].pc = "awaitSet"
                      THEN Append(queue, Command("setex", k, Stringify(value), ttl, t))
                      ELSE queue
        /\ lastSet' = [lastSet EXCEPT ![k] =
                         IF tk[t].pc = "done" THEN SetRecord(tk[t]) ELSE NoSet]
  /\ lastDel' = [lastDel EXCEPT ![k] = FALSE]
  /\ lastMw' = lastMw
  /\ UNCHANGED <<requests, sdk, now, redisClient, conn, remote, health, unhandled>>

\* A set without a ttl that falls back to the promotion's ttl.
CallSetShort(t, k, value) == CallSet(t, k, value, PromoteTtl)

\* CacheService.set(key, value) without a ttl: the parameter's default.
CallSetDefault(t, k, value) == CallSet(t, k, value, DefaultTtl)

\* CacheService.delete(key): synchronous, the promise of del is dropped.
CallDelete(k) ==
  /\ used.del < MaxDeletes
  /\ used' = Count("del")
  /\ memoryCache' = LocalDel(k)
  /\ queue' = IF redisClient = "client"
                THEN Append(queue, Command("del", k, "nil", 0, "detached"))
                ELSE queue
  /\ task' = [t \in Tasks |-> IF Running(t) THEN [task[t] EXCEPT !.alone = FALSE]
                              ELSE task[t]]
  /\ lastDel' = [lastDel EXCEPT ![k] = TRUE]
  /\ lastSet' = lastSet
  /\ lastMw' = lastMw
  /\ UNCHANGED <<requests, sdk, now, redisClient, conn, remote, health, unhandled>>

\* ------------------------------------------------------- cacheMiddleware
\* The middleware, for a request with this method and url, up to
\* res.json(cached), next(), or its await of the lookup.
CallMwAs(t, method, url, duration) ==
  /\ Free(t)
  /\ used.mw < MaxMws
  /\ used' = Count("mw")
  /\ memoryCache' = LocalAfterGet(MwKey(url))
  /\ LET key == MwKey(url)
         r == [Start("mw", key, "undefined", duration) EXCEPT !.method = method]
         memoryResult == LocalGet(key)
         tk == Begin(t, IF Truthy(memoryResult)
                          THEN Finish([r EXCEPT !.via = "local"], memoryResult, 200)
                        ELSE IF redisClient = "client"
                          THEN [r EXCEPT !.pc = "awaitGet"]
                        ELSE [r EXCEPT !.pc = "handler", !.override = TRUE])
     IN /\ task' = tk
        /\ queue' = IF tk[t].pc = "awaitGet"
                      THEN Append(queue, Command("get", key, "nil", 0, t))
                      ELSE queue
        /\ lastMw' = NextLastMw(tk)
  /\ lastSet' = lastSet
  /\ UNCHANGED <<requests, sdk, now, redisClient, conn, remote, health, unhandled, lastDel>>

\* The middleware for a GET request.
CallMw(t, url, duration) == CallMwAs(t, "GET", url, duration)

\* cacheMiddleware() without a duration: the parameter's default.
CallMwDefault(t, url) == CallMw(t, url, DefaultDuration)

\* A handler whose output also answers the other requests that wait for
\* their own handler on the same key.
HandlerShared(t, outcome, body) ==
  /\ task[t].pc = "handler"
  /\ LET r == [task[t] EXCEPT !.produced = @ + 1]
         caches == outcome # "throw" /\ r.override
         out == IF outcome = "throw" THEN "THROWN" ELSE body
         status == IF outcome = "json200" THEN 200 ELSE 500
         tk == [u \in Tasks |->
                  IF u = t THEN Finish(r, out, status)
                  ELSE IF task[u].pc = "handler" /\ task[u].k = r.k
                    THEN Finish(task[u], out, status)
                  ELSE task[u]]
     IN /\ task' = tk
        /\ memoryCache' = IF caches THEN LocalSet(r.k, body, r.ttl) ELSE memoryCache
        /\ queue' = IF caches /\ redisClient = "client"
                      THEN Append(queue, Command("setex", r.k, Stringify(body), r.ttl,
                                                 "detached"))
                      ELSE queue
        /\ lastMw' = NextLastMw(tk)
        /\ lastSet' = IF caches THEN [lastSet EXCEPT ![r.k] = NoSet]
                      ELSE lastSet
        /\ lastDel' = IF caches THEN [lastDel EXCEPT ![r.k] = FALSE] ELSE lastDel
  /\ UNCHANGED <<requests, sdk, now, redisClient, conn, remote, health, unhandled, used>>

\* The wrapped handler emits its output: res.json(body) with a result,
\* res.status(500).json(body) with its error, or it throws.  The overridden
\* res.json calls CacheService.set without awaiting it, then sends the body.
Handler(t, outcome, body) ==
  /\ task[t].pc = "handler"
  /\ LET r == [task[t] EXCEPT !.produced = @ + 1]
         caches == outcome # "throw" /\ r.override
         tk == [task EXCEPT ![t] =
                  CASE outcome = "json200" -> Finish(r, body, 200)
                    [] outcome = "json500" -> Finish(r, body, 500)
                    [] OTHER -> Finish(r, "THROWN", 500)]
     IN /\ task' = tk
        /\ memoryCache' = IF caches THEN LocalSet(r.k, body, r.ttl) ELSE memoryCache
        /\ queue' = IF caches /\ redisClient = "client"
                      THEN Append(queue, Command("setex", r.k, Stringify(body), r.ttl,
                                                 "detached"))
                      ELSE queue
        /\ lastMw' = NextLastMw(tk)
        /\ lastSet' = IF caches THEN [lastSet EXCEPT ![r.k] = NoSet]
                      ELSE lastSet
        /\ lastDel' = IF caches THEN [lastDel EXCEPT ![r.k] = FALSE] ELSE lastDel
  /\ UNCHANGED <<requests, sdk, now, redisClient, conn, remote, health, unhandled, used>>

\* ----------------------------------------------------------- redis server
\* The command fails: the connection was never made, the server is failing,
\* or SETEX refuses the time to live.
Fails(c) ==
  \/ conn = "failed"
  \/ health = "down"
  \/ (c.cmd = "setex" /\ ~SetexAccepts(c.ttl))

Apply(c) ==
  CASE c.cmd = "setex" -> [remote EXCEPT ![c.k] = [s |-> c.s, exp |-> now + c.ttl]]
    [] c.cmd = "del" -> [remote EXCEPT ![c.k] = NoRemote]
    [] OTHER -> remote

\* CacheService.get after await redisClient.get(key): what it returns.
GetResult(k) == IF RemoteGet(k) # "nil" THEN Parse(RemoteGet(k)) ELSE "null"

\* A get that returns the remote hit without storing it.
NoPromote(k) == memoryCache

\* ... and its promotion of a remote hit into the memory cache.
Promote(k) ==
  IF RemoteGet(k) # "nil" THEN LocalSet(k, Parse(RemoteGet(k)), PromoteTtl)
  ELSE memoryCache

\* A middleware whose catch block answers the request itself instead of
\* calling next().
ResumeNoNext(r, c, failed) ==
  LET got == [r EXCEPT !.via = IF ~failed /\ RemoteGet(c.k) # "nil" THEN "remote"
                                ELSE "none",
                       !.lookupFailed = failed]
  IN CASE r.op = "get" -> Finish(got, IF failed THEN "REJECT" ELSE GetResult(c.k), 0)
       [] r.op = "set" -> Finish(r, IF failed THEN "REJECT" ELSE "ok", 0)
       [] r.op = "mw" ->
            IF failed THEN Finish(got, "REJECT", 500)
            ELSE IF Truthy(GetResult(c.k)) THEN Finish(got, GetResult(c.k), 200)
            ELSE [got EXCEPT !.pc = "handler", !.override = TRUE]
       [] OTHER -> r

\* The call that awaited command c resumes with the reply.
Resume(r, c, failed) ==
  LET hit == ~failed /\ RemoteGet(c.k) # "nil"
      got == [r EXCEPT !.via = IF hit THEN "remote" ELSE "none",
                       !.lookupFailed = failed]
  IN CASE r.op = "get" -> Finish(got, IF failed THEN "REJECT" ELSE GetResult(c.k), 0)
       [] r.op = "set" -> Finish(r, IF failed THEN "REJECT" ELSE "ok", 0)
       [] r.op = "mw" ->
            IF failed THEN [got EXCEPT !.pc = "handler", !.override = FALSE]
            ELSE IF Truthy(GetResult(c.k)) THEN Finish(got, GetResult(c.k), 200)
            ELSE [got EXCEPT !.pc = "handler", !.override = TRUE]
       [] OTHER -> r

\* The server answers the oldest command the client has issued.
Serve ==
  /\ queue # <<>>
  /\ conn \in {"ready", "failed"}
  /\ LET c == Head(queue)
         failed == Fails(c)
         tk == IF c.t \in Tasks
                 THEN [task EXCEPT ![c.t] = Resume(task[c.t], c, failed)]
                 ELSE task
     IN /\ queue' = Tail(queue)
        /\ remote' = IF failed THEN remote ELSE Apply(c)
        /\ memoryCache' = IF ~failed /\ c.cmd = "get" THEN Promote(c.k) ELSE memoryCache
        /\ task' = tk
        /\ unhandled' = (unhandled \/ (failed /\ c.t \notin Tasks))
        /\ lastSet' = NextLastSet(tk)
        /\ lastMw' = NextLastMw(tk)
  /\ UNCHANGED <<requests, sdk, now, redisClient, conn, health, lastDel, used>>

\* redisClient.connect() resolves.
ConnectOk ==
  /\ conn = "connecting"
  /\ health = "up"
  /\ conn' = "ready"
  /\ lastSet' = lastSet
  /\ lastMw' = lastMw
  /\ UNCHANGED <<requests, sdk, now, memoryCache, redisClient, queue, remote, health, task,
                 unhandled, lastDel, used>>

\* A failed connect whose catch handler keeps the client.
ConnectFailKeepsClient ==
  /\ conn = "connecting"
  /\ conn' = "failed"
  /\ UNCHANGED <<requests, sdk, now, memoryCache, redisClient, queue, remote, health, task,
                 unhandled, lastSet, lastDel, lastMw, used>>

\* redisClient.connect() rejects: the catch handler resets redisClient.
ConnectFail ==
  /\ conn = "connecting"
  /\ conn' = "failed"
  /\ redisClient' = "null"
  /\ lastSet' = lastSet
  /\ lastMw' = lastMw
  /\ UNCHANGED <<requests, sdk, now, memoryCache, queue, remote, health, task, unhandled,
                 lastDel, used>>

\* The redis server starts or stops failing.
ToggleHealth ==
  /\ health' = IF health = "up" THEN "down" ELSE "up"
  /\ lastSet' = lastSet
  /\ lastMw' = lastMw
  /\ UNCHANGED <<requests, sdk, now, memoryCache, redisClient, conn, queue, remote, task,
                 unhandled, lastDel, used>>

\* Another process runs CacheService.set: its SETEX reaches the server.
PeerSet(k, value, ttl) ==
  /\ used.peer < MaxPeers
  /\ health = "up"
  /\ SetexAccepts(ttl)
  /\ used' = Count("peer")
  /\ remote' = Apply(Command("setex", k, Stringify(value), ttl, "detached"))
  /\ task' = Forget(task, k)
  /\ lastSet' = [lastSet EXCEPT ![k] = NoSet]
  /\ lastDel' = [lastDel EXCEPT ![k] = FALSE]
  /\ lastMw' = lastMw
  /\ UNCHANGED <<requests, sdk, now, memoryCache, redisClient, conn, queue, health, unhandled>>

\* Another process runs CacheService.delete: its DEL reaches the server.
PeerDelete(k) ==
  /\ used.peer < MaxPeers
  /\ health = "up"
  /\ used' = Count("peer")
  /\ remote' = Apply(Command("del", k, "nil", 0, "detached"))
  /\ lastSet' = lastSet
  /\ lastMw' = lastMw
  /\ UNCHANGED <<requests, sdk, now, memoryCache, redisClient, conn, queue, health, task,
                 unhandled, lastDel>>

\* ------------------------------------------------------------------ time
Tick(d) ==
  /\ used.tick < MaxTicks
  /\ used' = Count("tick")
  /\ now' = now + d
  /\ lastSet' = lastSet
  /\ lastMw' = lastMw
  /\ UNCHANGED <<requests, sdk, memoryCache, redisClient, conn, queue, remote, health, task,
                 unhandled, lastDel>>

\* NodeCache._checkData, every checkperiod seconds: drop the expired entries.
Sweep ==
  /\ \E k \in Keys : memoryCache[k] # NoEntry /\ ~LocalLive(memoryCache[k])
  /\ memoryCache' = [k \in Keys |-> IF LocalLive(memoryCache[k]) THEN memoryCache[k]
                                    ELSE NoEntry]
  /\ lastSet' = lastSet
  /\ lastMw' = lastMw
  /\ UNCHANGED <<requests, sdk, now, redisClient, conn, queue, remote, health, task, unhandled,
                 lastDel, used>>

\* What surrounds the process: the connection, the server, the clock and
\* the sweep timer.
Environment ==
  \/ Serve
  \/ ConnectOk
  \/ ConnectFail
  \/ ToggleHealth
  \/ \E d \in TickSteps : Tick(d)
  \/ Sweep

\* The other processes that share the server.
Peers(keys) ==
  \/ \E k \in keys, v \in SetValues, ttl \in TtlInputs : PeerSet(k, v, ttl)
  \/ \E k \in keys : PeerDelete(k)

\* ------------------------------------------------- timeoutMiddleware
\* A res.json that sends whatever was sent before it.
JsonUnguarded(res, who, status) ==
  [res EXCEPT !.headersSent = TRUE, !.sent = Append(@, status)]

\* express's res.json on the one response of a request: it sends the status
\* and the body, unless the head of a response has been sent already, and
\* then it throws ("Cannot set headers after they are sent").
Json(res, who, status) ==
  IF res.headersSent
    THEN [res EXCEPT !.threw = @ \cup {who}]
    ELSE [res EXCEPT !.headersSent = TRUE, !.sent = Append(@, status)]

\* The request arrives: timeoutMiddleware arms the timer and calls next(),
\* which starts the route's handler.
TimeoutMiddleware(r) ==
  /\ requests[r].timer = "none"
  /\ requests' = [requests EXCEPT ![r].timer = "armed", ![r].handler = "running"]
  /\ UNCHANGED <<cacheVars, sdk>>

\* The timer runs out: the callback answers 408, whatever the handler did.
TimeoutCallback(r) ==
  /\ requests[r].timer = "armed"
  /\ requests' = [requests EXCEPT
                    ![r] = [Json(@, "timeout", 408) EXCEPT !.timer = "fired"]]
  /\ UNCHANGED <<cacheVars, sdk>>

\* The route's handler completes: it answers, whatever the timer did.
HandlerResponds(r, status) ==
  /\ requests[r].handler = "running"
  /\ requests' = [requests EXCEPT
                    ![r] = [Json(@, "handler", status) EXCEPT !.handler = "done"]]
  /\ UNCHANGED <<cacheVars, sdk>>

\* ------------------------------------------------------------ SurveySDK
\* new SurveySDK(config): a falsy retryAttempts or retryDelay, 0 or absent,
\* is replaced by the default.
Construct(attempts, delay) ==
  /\ sdk.pc = "none"
  /\ sdk' = [sdk EXCEPT
               !.pc = "idle",
               !.retryAttempts = IF attempts = 0 THEN DefaultRetryAttempts ELSE attempts,
               !.retryDelay = IF delay = 0 THEN DefaultRetryDelay ELSE delay]
  /\ UNCHANGED <<cacheVars, requests>>

\* makeRequest is called: the loop starts at attempt 1.
MakeRequest ==
  /\ sdk.pc = "idle"
  /\ sdk' = IF 1 <= sdk.retryAttempts
              THEN [sdk EXCEPT !.pc = "fetch", !.attempt = 1]
              ELSE [sdk EXCEPT !.pc = "thrown", !.attempt = 1,
                               !.out = [ret |-> "error", err |-> sdk.lastError,
                                        body |-> 0]]
  /\ UNCHANGED <<cacheVars, requests>>

\* The error an attempt ends with: fetch rejects, the response is not ok,
\* or response.json() rejects on a body that is not JSON.
ErrorOf(outcome, attempt) ==
  [kind |-> CASE outcome = "network" -> "TypeError"
              [] outcome = "notOk" -> "HTTP"
              [] OTHER -> "SyntaxError",
   attempt |-> attempt]

\* The fetch of the current attempt settles. An ok response whose body
\* parses is returned; anything else is caught, and the loop waits and goes
\* on, or ends and throws lastError.
FetchSettles(outcome) ==
  /\ sdk.pc = "fetch"
  /\ LET a == sdk.attempt
         counted == [sdk EXCEPT
                       !.fetches = @ + 1,
                       !.okAt = IF @ = 0 /\ outcome \in {"okJson", "okNotJson"}
                                  THEN a ELSE @]
         error == ErrorOf(outcome, a)
     IN sdk' = IF outcome = "okJson"
                 THEN [counted EXCEPT !.pc = "returned",
                                      !.out = [ret |-> "body", err |-> NoError,
                                               body |-> a]]
                 ELSE IF a < sdk.retryAttempts
                   THEN [counted EXCEPT !.pc = "delay", !.lastError = error,
                                        !.waits = Append(@, sdk.retryDelay * a)]
                   ELSE [counted EXCEPT !.pc = "thrown", !.lastError = error,
                                        !.attempt = a + 1,
                                        !.out = [ret |-> "error", err |-> error,
                                                 body |-> 0]]
  /\ UNCHANGED <<cacheVars, requests>>

\* The delay's timer runs out: the next attempt begins.
DelayElapses ==
  /\ sdk.pc = "delay"
  /\ sdk' = [sdk EXCEPT !.pc = "fetch", !.attempt = @ + 1]
  /\ UNCHANGED <<cacheVars, requests>>

\* ------------------------------------------------------- specifications
\* A process whose requests call CacheService one after the other, beside
\* other processes.
Init == InitCache /\ InitTimeout /\ InitSdk

Next ==
  \/ \E t \in Sequential, k \in DirectKeys : CallGet(t, k)
  \/ \E t \in Sequential, k \in DirectKeys, v \in SetValues, ttl \in TtlInputs :
       CallSet(t, k, v, ttl)
  \/ \E t \in Sequential, k \in DirectKeys, v \in SetValues : CallSetDefault(t, k, v)
  \/ \E k \in DirectKeys : CallDelete(k)
  \/ Environment
  \/ Peers(DirectKeys)

Spec == Init /\ [][Next]_vars

\* A process that serves its requests through cacheMiddleware, one after
\* the other.
NextMw ==
  \/ \E t \in Sequential, u \in URLs, d \in Durations : CallMw(t, u, d)
  \/ \E t \in Sequential, u \in URLs : CallMwDefault(t, u)
  \/ \E t \in Sequential, b \in OkBodies : Handler(t, "json200", b)
  \/ \E t \in Sequential : Handler(t, "json500", ErrBody)
  \/ \E t \in Sequential : Handler(t, "throw", "undefined")
  \/ Environment

SpecMw == Init /\ [][NextMw]_vars

\* A process that serves through cacheMiddleware requests that overlap: a
\* request arrives while the one before it is still being served.
NextMwPar ==
  \/ \E t \in Tasks, u \in URLs, d \in Durations : CallMw(t, u, d)
  \/ \E t \in Tasks, u \in URLs : CallMwDefault(t, u)
  \/ \E t \in Tasks, b \in OkBodies : Handler(t, "json200", b)
  \/ \E t \in Tasks : Handler(t, "json500", ErrBody)
  \/ \E t \in Tasks : Handler(t, "throw", "undefined")
  \/ Serve
  \/ ConnectOk
  \/ ConnectFail
  \/ ToggleHealth

SpecMwPar == Init /\ [][NextMwPar]_vars

\* A process that serves through cacheMiddleware requests of either method,
\* one after the other.
NextMwReq ==
  \/ \E t \in Sequential, m \in Methods, u \in URLs :
       CallMwAs(t, m, u, DefaultDuration)
  \/ \E t \in Sequential, b \in OkBodies : Handler(t, "json200", b)
  \/ Serve
  \/ ConnectOk
  \/ ConnectFail
  \/ ToggleHealth

SpecMwReq == Init /\ [][NextMwReq]_vars

\* The requests of a server that passes them through timeoutMiddleware.
NextTimeout ==
  \/ \E r \in Reqs : TimeoutMiddleware(r)
  \/ \E r \in Reqs : TimeoutCallback(r)
  \/ \E r \in Reqs, s \in HandlerStatuses : HandlerResponds(r, s)

SpecTimeout == Init /\ [][NextTimeout]_vars

\* A page that builds a SurveySDK and calls makeRequest. Every fetch
\* settles and every delay elapses.
NextSdk ==
  \/ \E a \in ConfigAttempts, d \in ConfigDelays : Construct(a, d)
  \/ MakeRequest
  \/ \E o \in FetchOutcomes : FetchSettles(o)
  \/ DelayElapses

SpecSdk ==
  /\ Init
  /\ [][NextSdk]_vars
  /\ WF_vars(\E o \in FetchOutcomes : FetchSettles(o))
  /\ WF_vars(DelayElapses)

\* ------------------------------------------------------------ properties
Done(t, op) == task[t].pc = "done" /\ task[t].op = op

\* Slot t holds, after this step, a call of kind op that returned in it.
Returns(t, op) == task'[t] # task[t] /\ task'[t].pc = "done" /\ task'[t].op = op

\* C1: a get of k that begins right after set(k, v, ttl) with ttl > 0 has
\* returned, in the same second and with no delete or set of k in between,
\* returns v.
SetThenGet_C1 ==
  \A t \in Tasks :
    (/\ Done(t, "get")
     /\ task[t].alone
     /\ task[t].set.done
     /\ task[t].set.ttl > 0
     /\ task[t].age = "same"
     /\ ~task[t].afterDel)
    => task[t].out = task[t].set.v

\* C2: with the client connected, no call of get, set or delete is rejected
\* because of the remote tier: the only rejection a caller sees is that of a
\* set with a bad ttl.
NoTierError_C2 ==
  \A t \in Tasks :
    (conn = "ready" /\ task[t].pc = "done" /\ task[t].out = "REJECT")
    => (task[t].op = "set" /\ task[t].ttl <= 0)

\* C5: a set with ttl <= 0 is rejected in the step that calls it and changes
\* neither tier.
BadTtlRejected_C5 ==
  [][\A t \in Tasks :
       (used'.set # used.set /\ task'[t].op = "set" /\ task'[t].pc # "idle"
        /\ task'[t].ttl <= 0)
       => (/\ task'[t].pc = "done"
           /\ task'[t].out = "REJECT"
           /\ memoryCache' = memoryCache
           /\ remote' = remote
           /\ queue' = queue)]_vars

\* C6: a get of k that begins more than ttl seconds after set(k, v, ttl) with
\* ttl > 0 returned "ok", with no set of k since, returns no value: it returns
\* absent (or is rejected, which C2 is about).
Expiry_C6 ==
  \A t \in Tasks :
    (/\ Done(t, "get")
     /\ task[t].set.done
     /\ task[t].set.out = "ok"
     /\ task[t].set.ttl > 0
     /\ task[t].age = "after")
    => task[t].out \in {"null", "REJECT"}

\* C7: when the server answers a get of k with the live entry it holds and the
\* memory cache has no live entry for k, the get returns the value of that
\* entry and the memory cache then holds a live entry with this value.
Promotion_C7 ==
  [][\A t \in Tasks :
       (/\ task[t].op = "get"
        /\ task[t].pc = "awaitGet"
        /\ Returns(t, "get")
        /\ ~Fails(Head(queue))
        /\ RemoteLive(remote[task[t].k])
        /\ ~LocalLive(memoryCache[task[t].k]))
       => (/\ task'[t].out = Parse(remote[task[t].k].s)
           /\ memoryCache'[task[t].k].v = Parse(remote[task[t].k].s)
           /\ memoryCache'[task[t].k] # NoEntry
           /\ ~(memoryCache'[task[t].k].t < now'))]_vars

\* C7's case: a get was answered from the server and the memory cache holds
\* what it returned.
PromotionSeen_C7 ==
  \E t \in Tasks :
    /\ Done(t, "get")
    /\ task[t].via = "remote"
    /\ Truthy(task[t].out)
    /\ LocalLive(memoryCache[task[t].k])
    /\ memoryCache[task[t].k].v = task[t].out

\* C8: a get of k that begins after delete(k) returned, with no set of k
\* since, returns no value: it returns absent (or is rejected, which C2 is
\* about).
DeleteThenGet_C8 ==
  \A t \in Tasks :
    (Done(t, "get") /\ task[t].afterDel) => task[t].out \in {"null", "REJECT"}

\* C9: with the client connected or absent, a get of k that returns while
\* neither tier holds a live entry for k returns absent and leaves both tiers
\* without one.
AbsentWhenEmpty_C9 ==
  [][\A t \in Tasks :
       (/\ Returns(t, "get")
        /\ conn \in {"ready", "none"}
        /\ ~LocalLive(memoryCache[task'[t].k])
        /\ ~RemoteLive(remote[task'[t].k]))
       => (/\ task'[t].out = "null"
           /\ ~LocalLive(memoryCache'[task'[t].k])
           /\ remote' = remote)]_vars

\* C3: of two middleware calls for one key made one after the other, the
\* second before the ttl has run out, where the first ran the handler and
\* sent its result, the second does not run the handler and sends the same
\* value.
MissThenHit_C3 ==
  \A t \in Tasks :
    (/\ Done(t, "mw")
     /\ task[t].alone
     /\ task[t].pre.done
     /\ task[t].pre.produced = 1
     /\ task[t].pre.status = 200
     /\ task[t].pre.ttl > 0
     /\ task[t].age \in {"same", "within"})
    => (task[t].produced = 0 /\ task[t].out = task[t].pre.out)

\* C4: the error output of a handler is stored in neither tier, and the
\* middleware call that follows one whose handler failed runs the handler
\* again.
ErrorNotCached_C4 ==
  /\ \A k \in Keys :
       /\ memoryCache[k].v # ErrBody
       /\ remote[k].s # Stringify(ErrBody)
  /\ \A t \in Tasks :
       (/\ Done(t, "mw")
        /\ task[t].alone
        /\ task[t].pre.done
        /\ task[t].pre.produced = 1
        /\ task[t].pre.status = 500)
       => task[t].produced = 1

\* C10: with the client connected and the server failing, the middleware call
\* that follows, before the ttl has run out, one whose lookup failed and whose
\* handler sent a result is served that result without running the handler.
DegradedMemoize_C10 ==
  \A t \in Tasks :
    (/\ Done(t, "mw")
     /\ conn = "ready"
     /\ task[t].alone
     /\ task[t].pre.done
     /\ task[t].pre.lookupFailed
     /\ task[t].pre.produced = 1
     /\ task[t].pre.status = 200
     /\ Truthy(task[t].pre.out)
     /\ task[t].pre.ttl > 0
     /\ task[t].age \in {"same", "within"})
    => (task[t].produced = 0 /\ task[t].out = task[t].pre.out)

\* C11: with the client connected, a get whose remote read failed returns
\* absent to its caller.
ReadErrorAbsorbed_C11 ==
  \A t \in Tasks :
    (Done(t, "get") /\ conn = "ready" /\ task[t].lookupFailed)
    => task[t].out = "null"

\* C12: with the client connected and the clock standing still, a set with
\* ttl > 0 that ran alone and whose remote write failed returns as a
\* successful one does, and the memory cache holds its value with its ttl.
WriteErrorAbsorbed_C12 ==
  [][\A t \in Tasks :
       (/\ task[t].op = "set"
        /\ task[t].pc = "awaitSet"
        /\ Returns(t, "set")
        /\ conn = "ready"
        /\ Fails(Head(queue))
        /\ task[t].ttl > 0
        /\ task[t].alone
        /\ now = Epoch)
       => (/\ task'[t].out = "ok"
           /\ memoryCache'[task[t].k] = Wrap(task[t].v, task[t].ttl))]_vars

\* C13: the connection is attempted once; once the attempt has failed the
\* client is null in every later state, no call adds a command for the
\* server, and every call that begins returns in the same step without a
\* rejection (a get with the local value or absent).
DisabledForGood_C13 ==
  /\ [](conn = "failed" => redisClient = "null")
  /\ [][/\ (conn' = "connecting" => conn = "connecting")
        /\ (conn = "failed"
            => (/\ conn' = "failed"
                /\ Len(queue') <= Len(queue)
                /\ \A t \in Tasks :
                     (used' # used /\ task'[t] # task[t] /\ ~Running(t))
                     => (/\ task'[t].pc = "done"
                         /\ task'[t].out # "REJECT"
                         /\ (task'[t].op = "get"
                             => task'[t].out = IF Truthy(LocalGet(task'[t].k))
                                                 THEN LocalGet(task'[t].k)
                                                 ELSE "null"))))]_vars

\* C13's case: after the failed attempt a get began and returned absent
\* without a remote read.
DisabledGet_C13 ==
  /\ conn = "failed"
  /\ queue = <<>>
  /\ used.del = MaxDeletes
  /\ \E t \in Tasks :
       /\ Done(t, "get")
       /\ ~task[t].lookupFailed
       /\ task[t].via = "none"
       /\ task[t].out = "null"

\* C14: the step in which a set begins stores the value in the memory cache
\* with the call's ttl and, when there is a client, issues one SETEX with the
\* JSON text of the same value and the same ttl (and nothing without a
\* client); a set called without a ttl does both with 300 seconds.
WriteThrough_C14 ==
  [][/\ \A t \in Tasks :
          (used'.set # used.set /\ task'[t] # task[t] /\ task'[t].op = "set")
          => (/\ memoryCache'[task'[t].k] = Wrap(task'[t].v, task'[t].ttl)
              /\ queue' = IF redisClient = "client"
                            THEN Append(queue, Command("setex", task'[t].k,
                                                       Stringify(task'[t].v),
                                                       task'[t].ttl, t))
                            ELSE queue)
     /\ \A t \in Tasks, k \in Keys, v \in SetValues :
          CallSetDefault(t, k, v)
          => (/\ memoryCache'[k] = Wrap(v, 300)
              /\ redisClient = "client"
                 => queue'[Len(queue')] = Command("setex", k, Stringify(v), 300, t))]_vars

\* C14's case: a set without a ttl has written the memory cache and its
\* SETEX is on the way to the server.
WriteThroughSeen_C14 ==
  \E t \in Tasks :
    /\ task[t].op = "set"
    /\ task[t].pc = "awaitSet"
    /\ task[t].ttl = DefaultTtl
    /\ memoryCache[task[t].k] = Wrap(task[t].v, DefaultTtl)
    /\ queue # <<>>
    /\ queue[Len(queue)] = Command("setex", task[t].k, Stringify(task[t].v),
                                   DefaultTtl, t)

LocalHitFirst_C16 ==
  [][\A t \in Tasks :
       (/\ used'.get # used.get
        /\ task'[t] # task[t]
        /\ task'[t].op = "get"
        /\ LocalLive(memoryCache[task'[t].k]))
       => (/\ task'[t].pc = "done"
           /\ task'[t].out = memoryCache[task'[t].k].v
           /\ queue' = queue)]_vars

\* C17: a get that the server answers with a live entry, the memory cache
\* holding none, stores the value in the memory cache for 60 seconds, and
\* every ttl with which a set writes an entry to the server is longer than
\* those 60 seconds.
PromotionTtl_C17 ==
  [][/\ \A t \in Tasks :
          (/\ task[t].op = "get"
           /\ task[t].pc = "awaitGet"
           /\ Returns(t, "get")
           /\ ~Fails(Head(queue))
           /\ RemoteLive(remote[task[t].k])
           /\ ~LocalLive(memoryCache[task[t].k]))
          => memoryCache'[task[t].k].t = now + 60
     /\ (/\ queue # <<>>
         /\ queue' = Tail(queue)
         /\ Head(queue).cmd = "setex"
         /\ ~Fails(Head(queue)))
        => 60 < Head(queue).ttl]_vars

\* C18: a get never returns from the memory cache an entry whose time has
\* passed (the entry's t lies in the past, or the entry was stored with
\* ttl 0 by a set that returned before the current second), swept or not; a
\* sweep removes only expired entries and changes the result of no local
\* read.
ReadExpiry_C18 ==
  /\ [](\A t \in Tasks :
          ~(/\ Done(t, "get")
            /\ task[t].via = "local"
            /\ task[t].set.done
            /\ task[t].set.ttl <= 0
            /\ task[t].age = "after"
            /\ ~task[t].afterDel
            /\ memoryCache[task[t].k] = [v |-> task[t].out, t |-> 0]))
  /\ [][/\ \A t \in Tasks :
             (/\ used'.get # used.get
              /\ task'[t] # task[t]
              /\ task'[t].op = "get"
              /\ memoryCache[task'[t].k].t # 0
              /\ memoryCache[task'[t].k].t < now)
             => task'[t].via # "local"
        /\ Sweep
           => \A k \in Keys :
                /\ memoryCache'[k] # memoryCache[k] => ~LocalLive(memoryCache[k])
                /\ (IF LocalLive(memoryCache'[k]) THEN memoryCache'[k].v
                    ELSE "undefined") = LocalGet(k)]_vars

\* C19: a middleware call runs the handler at most once, has not run it
\* while it waits for it, has run it exactly once when its lookup was
\* rejected, and has sent its response without running it only when it sent
\* a value found in the cache.
ProduceOnce_C19 ==
  \A t \in Tasks :
    task[t].op = "mw"
    => (/\ task[t].produced <= 1
        /\ task[t].pc = "handler" => task[t].produced = 0
        /\ task[t].pc = "done"
           => (/\ task[t].lookupFailed => task[t].produced = 1
               /\ task[t].produced = 0
                  => (/\ task[t].via \in {"local", "remote"}
                      /\ Truthy(task[t].out)
                      /\ task[t].status = 200)))

\* C19's case: a call whose lookup was rejected has run the handler once and
\* sent what it produced.
ProducedAfterError_C19 ==
  \E t \in Tasks :
    /\ Done(t, "mw")
    /\ task[t].lookupFailed
    /\ task[t].produced = 1
    /\ task[t].out \in OkBodies

TiersAgree_C22 ==
  \A t \in Tasks :
    (/\ Done(t, "set")
     /\ task[t].out = "ok"
     /\ task[t].ttl > 0
     /\ Parse(Stringify(task[t].v)) = task[t].v
     /\ conn = "ready"
     /\ queue = <<>>
     /\ used.peer = 1
     /\ used.get = 0
     /\ used.del = 0
     /\ now = Epoch
     /\ RemoteLive(remote[task[t].k]))
    => (/\ LocalLive(memoryCache[task[t].k])
        /\ memoryCache[task[t].k].v = Parse(remote[task[t].k].s))

\* C23: a middleware call that is sent a value from the cache, following a
\* call for the same key whose handler produced and stored its output, serves
\* a request of the same method as that call's.
KeyPerRequest_C23 ==
  \A t \in Tasks :
    (/\ Done(t, "mw")
     /\ task[t].alone
     /\ task[t].produced = 0
     /\ task[t].via \in {"local", "remote"}
     /\ task[t].pre.done
     /\ task[t].pre.produced = 1
     /\ ~task[t].pre.lookupFailed
     /\ task[t].pre.out = task[t].out)
    => task[t].method = task[t].pre.method

\* C24: with the client connected, from the return of delete(k) until a set
\* of k begins (in this process or another) the memory cache holds no live
\* entry for k: no get that runs meanwhile promotes the deleted value back,
\* and so none that begins meanwhile returns it.
NoResurrection_C24 ==
  \A k \in Keys :
    (conn = "ready" /\ lastDel[k])
    => (/\ ~LocalLive(memoryCache[k])
        /\ \A t \in Tasks :
             (Done(t, "get") /\ task[t].k = k /\ task[t].afterDel)
             => task[t].via # "local")

\* C25: a get or a middleware call that begins while the memory cache holds
\* a live entry with a falsy value for its key ends in that step with the
\* stored value, issues no command for the server and, for the middleware,
\* does not go on to the handler.
FalsyHit_C25 ==
  [][\A t \in Tasks :
       (/\ (used'.get # used.get \/ used'.mw # used.mw)
        /\ task'[t] # task[t]
        /\ task'[t].op \in {"get", "mw"}
        /\ LocalLive(memoryCache[task'[t].k])
        /\ memoryCache[task'[t].k].v \in {"0", "NaN"})
       => (/\ task'[t].pc = "done"
           /\ task'[t].out = memoryCache[task'[t].k].v
           /\ task'[t].produced = 0
           /\ queue' = queue)]_vars

\* C26: when a get stores in the memory cache the entry with which the
\* server answered it, whichever process wrote that entry, the stored copy
\* does not live longer than the server's entry.
PromotionBounded_C26 ==
  [][\A t \in Tasks :
       (/\ task[t].op = "get"
        /\ task[t].pc = "awaitGet"
        /\ Returns(t, "get")
        /\ ~Fails(Head(queue))
        /\ RemoteLive(remote[task[t].k]))
       => (\/ memoryCache'[task[t].k] = NoEntry
           \/ /\ memoryCache'[task[t].k].t # 0
              /\ memoryCache'[task[t].k].t < remote[task[t].k].exp)]_vars

\* C27: the calls issued while the connection attempt was pending, whose
\* commands the client still holds when the attempt has failed, complete
\* without an error: none is rejected and no rejection is left unhandled.
PendingCallsComplete_C27 ==
  [][(/\ conn = "failed"
      /\ queue # <<>>
      /\ queue' = Tail(queue))
     => (/\ \A t \in Tasks : task'[t] # task[t] => task'[t].out # "REJECT"
         /\ unhandled' = unhandled)]_vars

\* C28: the step in which a get or a middleware call returns a value found
\* in the cache, without running the handler, writes nothing: the memory
\* cache and the server's entries are as before and no command is issued.
HitWritesNothing_C28 ==
  [][\A t \in Tasks :
       (/\ task'[t] # task[t]
        /\ task'[t].op \in {"get", "mw"}
        /\ task'[t].pc = "done"
        /\ task'[t].via \in {"local", "remote"}
        /\ task'[t].produced = 0
        /\ task[t].pc # "handler")
       => (/\ memoryCache' = memoryCache
           /\ remote' = remote
           /\ Len(queue') <= Len(queue))]_vars

RetryContract_C30 ==
  /\ [](/\ sdk.pc # "none" => sdk.fetches <= sdk.retryAttempts
        /\ sdk.okAt # 0 =>
             /\ sdk.pc = "returned"
             /\ sdk.out = [ret |-> "body", err |-> NoError, body |-> sdk.okAt]
             /\ sdk.fetches = sdk.okAt
        /\ sdk.pc = "thrown" =>
             /\ sdk.fetches = sdk.retryAttempts
             /\ sdk.out.ret = "error"
             /\ sdk.out.err = sdk.lastError
             /\ sdk.lastError.attempt = sdk.retryAttempts
        /\ \A n \in 1..Len(sdk.waits) : sdk.waits[n] = sdk.retryDelay * n
        /\ sdk.pc \in {"fetch", "delay"} => Len(sdk.waits) = sdk.fetches
        /\ sdk.pc = "delay" => sdk.fetches < sdk.retryAttempts
        /\ sdk.pc \in {"returned", "thrown"} => Len(sdk.waits) = sdk.fetches - 1)
  /\ (sdk.pc \in {"fetch", "delay"} ~> sdk.pc \in {"returned", "thrown"})

====
